---- MODULE Spec2Model ----
(***************************************************************************)
(* Pair-tracking and dispatch engine of go-filesha-verifier:               *)
(* FileTracker (registry), FileScanner, coordinator, WorkerPoolManager     *)
(* and StatsTracker, together with the source / verified / DLQ folders     *)
(* they act on.                                                            *)
(***************************************************************************)
EXTENDS Integers, Sequences, FiniteSets, TLC

\* ------------------------------------------------------------------ bounds
\* The clock stops at MaxTime.
MaxTime == 4
\* Number of files the external producer drops into the source folder.
MaxArrivals == 2
\* Number of injected I/O failures (rename/copy/delete failing on a file that exists).
MaxIOFail == 1
\* Number of results the statistics tracker counts when it is driven directly.
MaxCount == 3
MaxPad == 1       \* longest run of white space written around a checksum token
MaxLenDelta == 1  \* checksum tokens are at most this much shorter or longer than HashLen

\* ------------------------------------------------- configuration (config.yaml)
\* verification.retryTimeout, in clock units (validateConfig: must be positive)
RetryTimeout == 2
\* concurrency.queueSize: capacity of the buffered job channel
QueueSize == 2
\* concurrency.workers
NumWorkers == 2

\* Data file names the producer uses; every one matches verification.fileFilters.
Keys == {"a.bin", "b.bin"}
\* The names the producer drops files under in Spec.
Produced == {"a.bin"}
Workers == 1..NumWorkers
SourceFolder == "source"
\* Size reported by entry.Info() for a data file.
FileSize == 8
HashLen == 64    \* hex characters of a SHA256 digest

VARIABLES
    now,        \* time.Now()
    srcData,    \* data files present in the source folder (set of keys)
    srcSha,     \* checksum file of each key in the source folder:
                \* "none" (absent), "match" or "mismatch" (its digest vs the data file's)
    verified,   \* files in the verified folder: records [name, uniq]
    dlq,        \* files in the DLQ folder: records [name, sha, uniq]
    files,      \* FileTracker.files: function from tracked keys to FilePair
    jobQueue,   \* WorkerPoolManager.jobQueue (buffered channel)
    pc,         \* position of each worker goroutine
    wjob,       \* the job each worker holds
    stats,      \* StatsTracker counters
    csvRows,    \* rows handed to CSVLogger.LogVerification
    arrivals,   \* files dropped by the producer so far
    ioFails,    \* injected I/O failures so far
    gaveUp,     \* keys a worker gave up on (handleFailure past the deadline)
                \* for which the producer has dropped no file since
    lastOp,     \* the operation that produced the current state
    recorded,   \* per key: the halves recorded with the tracker, and whether a
                \* job's outcome was counted for it, since the key was last removed
    mainPc,     \* main: 0 while running, then the index in ShutdownOrder of the
                \* component it is stopping, Len(ShutdownOrder) + 1 once it returned
    coordinatorDone,    \* the coordinator goroutine has returned (close(done))
    scanLoopDone,       \* the scanLoop goroutine has returned (wg.Done)
    statsMutex, \* StatsTracker.mutex: "unlocked", or the method that holds the
                \* write lock and has done its first write
    snapshot,   \* the Statistics the last GetStatistics call returned
    resetSeen,  \* Reset was called since the last GetStatistics call
    vf,         \* VerifyFile called directly: the files it is given and its result
    held,       \* per goroutine: the locks it holds ("tracker", "stats")
    call,       \* per goroutine: the FileTracker method it is executing
    seqFiles,   \* the registry the finished FileTracker calls produce when
                \* applied one after the other in the order they took the lock
    readResult  \* the pairs the last GetReadyForVerification call returned

lifecycle == <<mainPc, coordinatorDone, scanLoopDone>>
aggregator == <<statsMutex, snapshot, resetSeen>>
verifier == <<vf>>
locking == <<held, call, seqFiles, readResult>>

vars == <<now, srcData, srcSha, verified, dlq, files, jobQueue, pc, wjob,
          stats, csvRows, arrivals, ioFails, gaveUp, lastOp, recorded,
          mainPc, coordinatorDone, scanLoopDone, statsMutex, snapshot, resetSeen,
          vf, held, call, seqFiles, readResult>>

\* The goroutines that use the FileTracker and the StatsTracker.
Goroutines == {"scanner", "coordinator"} \cup {ToString(w) : w \in Workers}

\* The goroutine is executing no operation / VerifyFile not called.
NoCall == [method |-> "none", key |-> "", step |-> 0, existed |-> FALSE]
NoVerifyCall == [placed |-> FALSE, called |-> FALSE,
                 sha256File |-> [readable |-> FALSE, content |-> <<>>],
                 dataFile |-> [readable |-> FALSE, sum |-> <<>>],
                 computed |-> <<>>, expected |-> <<>>, err |-> ""]

\* ------------------------------------------------------------------ paths
\* A path is a sequence of components; the empty string is the empty sequence.
EmptyPath == <<>>
DataPath(k) == <<SourceFolder, k>>
Sha256Name(k) == <<k, ".sha256">>
Sha256Path(k) == <<SourceFolder>> \o Sha256Name(k)

\* sha256File[:len(sha256File)-7]
TrimSha256(name) == name[1]

\* FileExists(filePath): os.Stat succeeds
FileExists(path) ==
    IF path = EmptyPath THEN FALSE
    ELSE IF Len(path) = 2 THEN path[2] \in srcData
    ELSE srcSha[path[2]] # "none"

\* ------------------------------------------------------------ FileTracker
NoJob == [FilePair |-> [DataFile |-> ""], RetryDeadline |-> 0]

AddOrUpdateDataFile(f, k, dataSize, t) ==
    IF k \in DOMAIN f
    THEN [f EXCEPT ![k].DataFilePath = DataPath(k), ![k].DataSize = dataSize]
    ELSE f @@ (k :> [DataFile     |-> k,
                     DataFilePath |-> DataPath(k),
                     SHA256File   |-> EmptyPath,
                     SHA256Path   |-> EmptyPath,
                     DataSize     |-> dataSize,
                     FirstSeen    |-> t,
                     HasBothFiles |-> FALSE])

\* AddOrUpdateSHA256File stamping FirstSeen on the update branch too.
AddOrUpdateSHA256FileRestamps(f, sha256File, t) ==
    LET k == TrimSha256(sha256File) IN
    IF k \in DOMAIN f
    THEN [f EXCEPT ![k].SHA256File = sha256File,
                   ![k].SHA256Path = <<SourceFolder>> \o sha256File,
                   ![k].FirstSeen = t,
                   ![k].HasBothFiles = TRUE]
    ELSE f @@ (k :> [DataFile     |-> k,
                     DataFilePath |-> EmptyPath,
                     SHA256File   |-> sha256File,
                     SHA256Path   |-> <<SourceFolder>> \o sha256File,
                     DataSize     |-> 0,
                     FirstSeen    |-> t,
                     HasBothFiles |-> FALSE])

AddOrUpdateSHA256File(f, sha256File, t) ==
    LET k == TrimSha256(sha256File) IN
    IF k \in DOMAIN f
    THEN [f EXCEPT ![k].SHA256File = sha256File,
                   ![k].SHA256Path = <<SourceFolder>> \o sha256File,
                   ![k].HasBothFiles = TRUE]
    ELSE f @@ (k :> [DataFile     |-> k,
                     DataFilePath |-> EmptyPath,
                     SHA256File   |-> sha256File,
                     SHA256Path   |-> <<SourceFolder>> \o sha256File,
                     DataSize     |-> 0,
                     FirstSeen    |-> t,
                     HasBothFiles |-> FALSE])

MarkBothFilesPresent(f, k) ==
    IF k \in DOMAIN f THEN [f EXCEPT ![k].HasBothFiles = TRUE] ELSE f

\* The readiness test trusting the flag alone.
IsReadyFlagOnly(pair) == pair.HasBothFiles

IsReady(pair) ==
    pair.HasBothFiles /\ pair.DataFilePath # EmptyPath /\ pair.SHA256Path # EmptyPath

GetReadyForVerification(f) == {k \in DOMAIN f : IsReady(f[k])}

\* The expiry test with > in place of >=.
GetExpiredFilesStrict(f, t) == {k \in DOMAIN f : t - f[k].FirstSeen > RetryTimeout}

GetExpiredFiles(f, t) == {k \in DOMAIN f : t - f[k].FirstSeen >= RetryTimeout}

\* Remove replacing the map by an empty one.
RemoveClears(f, k) == <<>>

Remove(f, k) == [x \in DOMAIN f \ {k} |-> f[x]]

GetPendingCount(f) == Cardinality(DOMAIN f)

\* Nothing recorded for a key.
NoneRecorded == [data |-> FALSE, sha |-> FALSE, counted |-> FALSE]

\* ------------------------------------------------------------ StatsTracker
\* IncrementSuccess forgetting the processed counter.
IncrementSuccessNoTotal(s) == [s EXCEPT !.successCount = @ + 1]

IncrementSuccess(s) ==
    [s EXCEPT !.successCount = @ + 1, !.totalProcessed = @ + 1]

IncrementFailure(s) ==
    [s EXCEPT !.failureCount = @ + 1, !.totalProcessed = @ + 1]

\* SetPendingCount writing the wrong counter.
SetPendingCountWrongField(s, count) == [s EXCEPT !.totalProcessed = count]

SetPendingCount(s, count) == [s EXCEPT !.pendingCount = count]

\* GetStatistics: the copy of the counters it returns
GetStatistics(s) ==
    [TotalProcessed |-> s.totalProcessed,
     SuccessCount   |-> s.successCount,
     FailureCount   |-> s.failureCount,
     PendingCount   |-> s.pendingCount]

\* ------------------------------------------------------------- FileScanner
\* The data file branch of the loop without the os.Stat of the checksum file.
ScanDataEntryNoStat(f, k, t) == AddOrUpdateDataFile(f, k, FileSize, t)

\* A data file entry: record it, and when os.Stat finds its checksum file,
\* record that too and mark the pair.
ScanDataEntry(f, k, t) ==
    LET f1 == AddOrUpdateDataFile(f, k, FileSize, t) IN
    IF FileExists(Sha256Path(k))
    THEN MarkBothFilesPresent(AddOrUpdateSHA256File(f1, Sha256Name(k), t), k)
    ELSE f1

\* A ".sha256" entry.
ScanSha256Entry(f, k, t) == AddOrUpdateSHA256File(f, Sha256Name(k), t)

\* os.ReadDir returns the entries sorted by filename: "k" comes before "k.sha256".
ScanKey(f, k, t) ==
    LET f1 == IF k \in srcData THEN ScanDataEntry(f, k, t) ELSE f IN
    IF srcSha[k] # "none" THEN ScanSha256Entry(f1, k, t) ELSE f1

RECURSIVE ScanEntries(_, _, _)
ScanEntries(f, ks, t) ==
    IF ks = {} THEN f
    ELSE LET k == CHOOSE x \in ks : TRUE
         IN ScanEntries(ScanKey(f, k, t), ks \ {k}, t)

\* FileScanner.scan: one pass over the source folder
Scan ==
    /\ ~scanLoopDone
    /\ files' = ScanEntries(files, Keys, now)
    /\ recorded' = [k \in Keys |->
                      [data    |-> recorded[k].data \/ k \in srcData,
                       sha     |-> recorded[k].sha \/ srcSha[k] # "none",
                       counted |-> recorded[k].counted]]
    /\ lastOp' = [op |-> "scan", key |-> "", result |-> ""]
    /\ UNCHANGED <<now, srcData, srcSha, verified, dlq, jobQueue, pc, wjob,
                   stats, csvRows, arrivals, ioFails, gaveUp>>
    /\ UNCHANGED <<lifecycle, aggregator, verifier, locking>>

\* ------------------------------------------------------- WorkerPoolManager
\* SubmitJob on a channel without buffer and no worker waiting to receive.
SubmitJobUnbuffered(q, job) == [accepted |-> FALSE, queue |-> q]

\* SubmitJob with the capacity test off by one.
SubmitJobOffByOne(q, job) ==
    IF Len(q) <= QueueSize
    THEN [accepted |-> TRUE, queue |-> Append(q, job)]
    ELSE [accepted |-> FALSE, queue |-> q]

\* SubmitJob: the non-blocking send on the buffered channel
SubmitJob(q, job) ==
    IF Len(q) < QueueSize
    THEN [accepted |-> TRUE, queue |-> Append(q, job)]
    ELSE [accepted |-> FALSE, queue |-> q]

\* ------------------------------------------------------------- coordinator
\* The job with the retry timeout left out of its deadline.
NewJobNoTimeout(pair) ==
    [FilePair |-> pair, RetryDeadline |-> pair.FirstSeen]

NewJob(pair) ==
    [FilePair |-> pair, RetryDeadline |-> pair.FirstSeen + RetryTimeout]

\* The submit loop over readyFiles, in the order the slice holds them.
RECURSIVE SubmitAll(_, _, _)
SubmitAll(q, order, f) ==
    IF order = <<>> THEN [queue |-> q, rejected |-> 0]
    ELSE LET r    == SubmitJob(q, NewJob(f[Head(order)]))
             rest == SubmitAll(r.queue, Tail(order), f)
         IN [queue    |-> rest.queue,
             rejected |-> rest.rejected + (IF r.accepted THEN 0 ELSE 1)]

\* The orders in which a map iteration can visit the keys of S.
Orders(S) ==
    {o \in [1..Cardinality(S) -> S] : \A i, j \in DOMAIN o : i # j => o[i] # o[j]}

\* The loop still selecting after the coordinator has returned.
CoordinatorRunningAlways(done) == TRUE

\* The coordinator's for/select loop runs until the function returns, which
\* closes done.
CoordinatorRunning(done) == ~done

\* case <-ticker.C of the coordinator loop
CoordinatorTick ==
    /\ CoordinatorRunning(coordinatorDone)
    /\ \E order \in Orders(GetReadyForVerification(files)) :
        LET r == SubmitAll(jobQueue, order, files) IN
        /\ jobQueue' = r.queue
        /\ stats' = SetPendingCount(stats, GetPendingCount(files))
        /\ lastOp' = [op |-> "tick", key |-> "",
                      result |-> IF order = <<>> THEN "none"
                                 ELSE IF r.rejected > 0 THEN "rejected"
                                 ELSE "accepted"]
        /\ UNCHANGED <<now, srcData, srcSha, verified, dlq, files, pc, wjob,
                       csvRows, arrivals, ioFails, gaveUp>>
        /\ UNCHANGED <<recorded, lifecycle, aggregator, verifier, locking>>

\* ---------------------------------------------------------- file operations
\* The key of a source path (filepath.Base, without the ".sha256" suffix).
KeyOf(path) == path[2]

\* moveFile / os.Remove on a source path: fails when the file is gone, or on
\* an injected I/O error.
IoOk(path, fail) == FileExists(path) /\ ~fail

\* MoveToVerified's destination: the plain name, or getUniqueFilePath's name
\* when the plain name is taken.
VerifiedDest(k) ==
    [name |-> k, uniq |-> [name |-> k, uniq |-> FALSE] \in verified]

\* MoveToDLQ's destination for the data file (sha = FALSE) or the checksum file.
DlqDest(k, isSha) ==
    [name |-> k, sha |-> isSha,
     uniq |-> [name |-> k, sha |-> isSha, uniq |-> FALSE] \in dlq]

\* VerifyFile: ReadSHA256File, ComputeFileSHA256, then the comparison.
\* TRUE iff err == nil.
VerifyFile(dataPath, sha256Path) ==
    /\ FileExists(sha256Path)
    /\ FileExists(dataPath)
    /\ srcSha[KeyOf(sha256Path)] = "match"

\* --------------------------------------------------------------- workers
\* The existence check looking at the checksum file only.
StaleJobShaOnly(job) == ~FileExists(job.FilePair.SHA256Path)

\* processJob's existence check: the job is stale
StaleJob(job) ==
    ~FileExists(job.FilePair.DataFilePath) \/ ~FileExists(job.FilePair.SHA256Path)

\* A receive that leaves the job in the channel.
ReceivePeek(q) == [job |-> Head(q), queue |-> q]

\* job := <-wpm.jobQueue: the oldest job is taken out of the channel and the
\* receiver gets it by value.
Receive(q) == [job |-> Head(q), queue |-> Tail(q)]

\* worker: receive a job from the channel; processJob up to the existence check.
WorkerStart(w) ==
    /\ pc[w] = "idle"
    /\ jobQueue # <<>>
    /\ LET job == Receive(jobQueue).job IN
       /\ jobQueue' = Receive(jobQueue).queue
       /\ IF StaleJob(job)
          THEN /\ files' = Remove(files, job.FilePair.DataFile)
               /\ recorded' = [recorded EXCEPT ![job.FilePair.DataFile] = NoneRecorded]
               /\ lastOp' = [op |-> "processJob", key |-> job.FilePair.DataFile,
                             result |-> "stale"]
               /\ UNCHANGED <<pc, wjob>>
          ELSE /\ pc' = [pc EXCEPT ![w] = "verify"]
               /\ wjob' = [wjob EXCEPT ![w] = job]
               /\ lastOp' = [op |-> "processJob", key |-> job.FilePair.DataFile,
                             result |-> "started"]
               /\ UNCHANGED <<files, recorded>>
    /\ UNCHANGED <<now, srcData, srcSha, verified, dlq, stats, csvRows, arrivals,
                   ioFails, gaveUp>>
    /\ UNCHANGED <<lifecycle, aggregator, verifier, locking>>

\* processJob: VerifyFile and the VerificationResult
ProcessJobVerify(w) ==
    /\ pc[w] = "verify"
    /\ LET job == wjob[w]
           ok  == VerifyFile(job.FilePair.DataFilePath, job.FilePair.SHA256Path)
       IN /\ pc' = [pc EXCEPT ![w] = IF ok THEN "success" ELSE "failure"]
          /\ lastOp' = [op |-> "verify", key |-> job.FilePair.DataFile,
                        result |-> IF ok THEN "match" ELSE "error"]
    /\ UNCHANGED <<now, srcData, srcSha, verified, dlq, files, jobQueue, wjob,
                   stats, csvRows, arrivals, ioFails, gaveUp>>
    /\ UNCHANGED <<recorded, lifecycle, aggregator, verifier, locking>>

\* An injected failure is possible on a file that exists, within the budget.
CanFail(path, fail, used) ==
    fail => (FileExists(path) /\ ioFails + used < MaxIOFail)

\* handleSuccess removing the pair when the move failed.
HandleSuccessResultDropsOnMoveError(pair, moved, deleted, f, s, rows) ==
    IF ~moved
    THEN [files |-> Remove(f, pair.DataFile), stats |-> IncrementFailure(s), csvRows |-> rows]
    ELSE [files   |-> Remove(f, pair.DataFile),
          stats   |-> IncrementSuccess(s),
          csvRows |-> rows + 1]

\* handleSuccess returning on a DeleteFile error as it does on a move error.
HandleSuccessResultAbortOnDelete(pair, moved, deleted, f, s, rows) ==
    IF ~moved \/ ~deleted
    THEN [files |-> f, stats |-> IncrementFailure(s), csvRows |-> rows]
    ELSE [files   |-> Remove(f, pair.DataFile),
          stats   |-> IncrementSuccess(s),
          csvRows |-> rows + 1]

\* handleSuccess's bookkeeping, given whether MoveToVerified and DeleteFile
\* succeeded: the registry, the counters and the CSV rows it leaves.
HandleSuccessResult(pair, moved, deleted, f, s, rows) ==
    IF ~moved
    THEN [files |-> f, stats |-> IncrementFailure(s), csvRows |-> rows]
    ELSE [files   |-> Remove(f, pair.DataFile),
          stats   |-> IncrementSuccess(s),
          csvRows |-> rows + 1]

HandleSuccess(w) ==
    /\ pc[w] = "success"
    /\ \E mvFail, delFail \in BOOLEAN :
       LET pair    == wjob[w].FilePair
           used    == IF mvFail THEN 1 ELSE 0
           moved   == IoOk(pair.DataFilePath, mvFail)
           deleted == moved /\ IoOk(pair.SHA256Path, delFail)
           r       == HandleSuccessResult(pair, moved, deleted, files, stats, csvRows)
       IN
       /\ CanFail(pair.DataFilePath, mvFail, 0)
       /\ CanFail(pair.SHA256Path, delFail, used)
       /\ mvFail => ~delFail
       /\ ioFails' = ioFails + used + (IF delFail THEN 1 ELSE 0)
       /\ srcData' = IF moved THEN srcData \ {KeyOf(pair.DataFilePath)} ELSE srcData
       /\ verified' = IF moved THEN verified \cup {VerifiedDest(KeyOf(pair.DataFilePath))}
                      ELSE verified
       /\ srcSha' = IF deleted THEN [srcSha EXCEPT ![KeyOf(pair.SHA256Path)] = "none"]
                    ELSE srcSha
       /\ files' = r.files
       /\ stats' = r.stats
       /\ csvRows' = r.csvRows
       /\ recorded' = IF moved THEN [recorded EXCEPT ![pair.DataFile] = NoneRecorded]
                      ELSE [recorded EXCEPT ![pair.DataFile].counted = TRUE]
       /\ lastOp' = [op |-> "handleSuccess", key |-> pair.DataFile,
                     result |-> IF ~moved THEN "moveFailed"
                                ELSE IF deleted THEN "moved" ELSE "movedDeleteFailed"]
    /\ pc' = [pc EXCEPT ![w] = "idle"]
    /\ wjob' = [wjob EXCEPT ![w] = NoJob]
    /\ UNCHANGED <<now, dlq, jobQueue, arrivals, gaveUp>>
    /\ UNCHANGED <<lifecycle, aggregator, verifier, locking>>

\* Before in place of After.
DeadlinePassedBefore(t, deadline) == t < deadline

\* time.Now().After(deadline)
DeadlinePassed(t, deadline) == t > deadline

\* handleFailure giving up without removing the pair.
HandleFailureResultKeepsPair(job, t, f, s) ==
    IF t > job.RetryDeadline
    THEN [giveUp |-> TRUE, files |-> f, stats |-> IncrementFailure(s)]
    ELSE [giveUp |-> FALSE, files |-> f, stats |-> s]

\* handleFailure dropping the pair from the tracker on the retry branch too.
HandleFailureResultDropsOnRetry(job, t, f, s) ==
    IF t > job.RetryDeadline
    THEN [giveUp |-> TRUE,
          files  |-> Remove(f, job.FilePair.DataFile),
          stats  |-> IncrementFailure(s)]
    ELSE [giveUp |-> FALSE, files |-> Remove(f, job.FilePair.DataFile), stats |-> s]

\* handleFailure's decision and bookkeeping: whether it gives up on the pair
\* (MoveToDLQ is called), and the registry and counters it leaves.
HandleFailureResult(job, t, f, s) ==
    IF DeadlinePassed(t, job.RetryDeadline)
    THEN [giveUp |-> TRUE,
          files  |-> Remove(f, job.FilePair.DataFile),
          stats  |-> IncrementFailure(s)]
    ELSE [giveUp |-> FALSE, files |-> f, stats |-> s]

HandleFailure(w) ==
    /\ pc[w] = "failure"
    /\ \E dataFail, shaFail \in BOOLEAN :
       LET job    == wjob[w]
           pair   == job.FilePair
           r      == HandleFailureResult(job, now, files, stats)
           used   == IF dataFail THEN 1 ELSE 0
           \* MoveToDLQ: the data file, then (only if that worked) the checksum file
           dataOk == r.giveUp /\ IoOk(pair.DataFilePath, dataFail)
           shaOk  == dataOk /\ IoOk(pair.SHA256Path, shaFail)
       IN
       /\ (dataFail \/ shaFail) => r.giveUp
       /\ CanFail(pair.DataFilePath, dataFail, 0)
       /\ CanFail(pair.SHA256Path, shaFail, used)
       /\ dataFail => ~shaFail
       /\ ioFails' = ioFails + used + (IF shaFail THEN 1 ELSE 0)
       /\ srcData' = IF dataOk THEN srcData \ {KeyOf(pair.DataFilePath)} ELSE srcData
       /\ srcSha' = IF shaOk THEN [srcSha EXCEPT ![KeyOf(pair.SHA256Path)] = "none"]
                    ELSE srcSha
       /\ dlq' = dlq \cup (IF dataOk THEN {DlqDest(pair.DataFile, FALSE)} ELSE {})
                     \cup (IF shaOk THEN {DlqDest(pair.DataFile, TRUE)} ELSE {})
       /\ files' = r.files
       /\ stats' = r.stats
       /\ gaveUp' = IF r.giveUp THEN gaveUp \cup {pair.DataFile} ELSE gaveUp
       /\ recorded' = IF r.giveUp THEN [recorded EXCEPT ![pair.DataFile] = NoneRecorded]
                      ELSE recorded
       /\ lastOp' = [op |-> "handleFailure", key |-> pair.DataFile,
                     result |-> IF ~r.giveUp THEN "retry"
                                ELSE IF shaOk THEN "dlq" ELSE "dlqMoveFailed"]
    /\ pc' = [pc EXCEPT ![w] = "idle"]
    /\ wjob' = [wjob EXCEPT ![w] = NoJob]
    /\ UNCHANGED <<now, verified, jobQueue, csvRows, arrivals>>
    /\ UNCHANGED <<lifecycle, aggregator, verifier, locking>>

\* ------------------------------------------------------------ environment
\* The external producer drops a data file into the source folder.
DataFileArrives(k) ==
    /\ arrivals < MaxArrivals
    /\ k \notin srcData
    /\ srcData' = srcData \cup {k}
    /\ arrivals' = arrivals + 1
    /\ gaveUp' = gaveUp \ {k}
    /\ lastOp' = [op |-> "arrive", key |-> k, result |-> "data"]
    /\ UNCHANGED <<now, srcSha, verified, dlq, files, jobQueue, pc, wjob,
                   stats, csvRows, ioFails>>
    /\ UNCHANGED <<recorded, lifecycle, aggregator, verifier, locking>>

\* ... or writes a checksum file, whose digest matches the data file's or not.
Sha256FileArrives(k, c) ==
    /\ arrivals < MaxArrivals
    /\ srcSha[k] # c
    /\ srcSha' = [srcSha EXCEPT ![k] = c]
    /\ arrivals' = arrivals + 1
    /\ gaveUp' = gaveUp \ {k}
    /\ lastOp' = [op |-> "arrive", key |-> k, result |-> c]
    /\ UNCHANGED <<now, srcData, verified, dlq, files, jobQueue, pc, wjob,
                   stats, csvRows, ioFails>>
    /\ UNCHANGED <<recorded, lifecycle, aggregator, verifier, locking>>

\* The clock advances.
Advance ==
    /\ now < MaxTime
    /\ now' = now + 1
    /\ lastOp' = [op |-> "advance", key |-> "", result |-> ""]
    /\ UNCHANGED <<srcData, srcSha, verified, dlq, files, jobQueue, pc, wjob,
                   stats, csvRows, arrivals, ioFails, gaveUp>>
    /\ UNCHANGED <<recorded, lifecycle, aggregator, verifier, locking>>

\* ---------------------------------------------------------- specification
Init ==
    /\ now = 0
    /\ srcData = {}
    /\ srcSha = [k \in Keys |-> "none"]
    /\ verified = {}
    /\ dlq = {}
    /\ files = <<>>
    /\ jobQueue = <<>>
    /\ pc = [w \in Workers |-> "idle"]
    /\ wjob = [w \in Workers |-> NoJob]
    /\ stats = [totalProcessed |-> 0, successCount |-> 0, failureCount |-> 0,
                pendingCount |-> 0]
    /\ csvRows = 0
    /\ arrivals = 0
    /\ ioFails = 0
    /\ gaveUp = {}
    /\ lastOp = [op |-> "init", key |-> "", result |-> ""]
    /\ recorded = [k \in Keys |-> NoneRecorded]
    /\ mainPc = 0
    /\ coordinatorDone = FALSE
    /\ scanLoopDone = FALSE
    /\ statsMutex = "unlocked"
    /\ snapshot = GetStatistics(stats)
    /\ resetSeen = FALSE
    /\ vf = NoVerifyCall
    /\ held = [g \in Goroutines |-> {}]
    /\ call = [g \in Goroutines |-> NoCall]
    /\ seqFiles = <<>>
    /\ readResult = {}

Next ==
    \/ Advance
    \/ \E k \in Produced : DataFileArrives(k)
    \/ \E k \in Produced, c \in {"match", "mismatch"} : Sha256FileArrives(k, c)
    \/ Scan
    \/ CoordinatorTick
    \/ \E w \in Workers : WorkerStart(w)
    \/ \E w \in Workers : ProcessJobVerify(w)
    \/ \E w \in Workers : HandleSuccess(w)
    \/ \E w \in Workers : HandleFailure(w)

Spec == Init /\ [][Next]_vars

\* The tickers fire and the goroutines are scheduled.
Fairness ==
    /\ WF_vars(Advance)
    /\ WF_vars(Scan)
    /\ WF_vars(CoordinatorTick)
    /\ \A w \in Workers :
        /\ WF_vars(WorkerStart(w))
        /\ WF_vars(ProcessJobVerify(w))
        /\ WF_vars(HandleSuccess(w))
        /\ WF_vars(HandleFailure(w))

FairSpec == Spec /\ Fairness

\* ---------------------------------------------------------------- shutdown
\* main stopping the scanner before the coordinator.
ShutdownOrderScannerFirst == <<"scanner", "coordinator", "workerPool", "csvLogger">>

\* main stopping the worker pool before it cancels the coordinator.
ShutdownOrderPoolFirst == <<"workerPool", "coordinator", "scanner", "csvLogger">>

\* The components main stops after the signal, in the order of its calls:
\* cancel() and <-coordinatorDone, scanner.Stop(), workerPool.Stop(), and the
\* deferred csvLogger.Close() when it returns.
ShutdownOrder == <<"coordinator", "scanner", "workerPool", "csvLogger">>

PosOf(c) == CHOOSE i \in 1..Len(ShutdownOrder) : ShutdownOrder[i] = c

\* main has called the stop of component c / that call has returned.
StopCalled(c) == mainPc >= PosOf(c)
StopReturned(c) == mainPc > PosOf(c)

\* close(wpm.jobQueue) has run
QueueClosed == StopCalled("workerPool")

\* What main waits for in the stop of component c.
Stopped(c) ==
    CASE c = "coordinator" -> coordinatorDone
      [] c = "scanner"     -> scanLoopDone
      [] c = "workerPool"  -> \A w \in Workers : pc[w] = "stopped"
      [] c = "csvLogger"   -> TRUE

notLifecycle == <<now, srcData, srcSha, verified, dlq, files, jobQueue, wjob, stats,
                  csvRows, arrivals, ioFails, gaveUp, recorded>>

\* main receives SIGINT/SIGTERM and calls the first stop.
ShutdownSignal ==
    /\ mainPc = 0
    /\ mainPc' = 1
    /\ lastOp' = [op |-> "main", key |-> "", result |-> ShutdownOrder[1]]
    /\ UNCHANGED <<notLifecycle, pc, coordinatorDone, scanLoopDone, aggregator, verifier, locking>>

\* The stop main is in returns; main calls the next one, or returns.
MainStop ==
    /\ mainPc \in 1..Len(ShutdownOrder)
    /\ Stopped(ShutdownOrder[mainPc])
    /\ mainPc' = mainPc + 1
    /\ lastOp' = [op |-> "main", key |-> "",
                  result |-> IF mainPc < Len(ShutdownOrder)
                             THEN ShutdownOrder[mainPc + 1] ELSE "exit"]
    /\ UNCHANGED <<notLifecycle, pc, coordinatorDone, scanLoopDone, aggregator, verifier, locking>>

\* coordinator: case <-ctx.Done()
CoordinatorReturn ==
    /\ StopCalled("coordinator")
    /\ ~coordinatorDone
    /\ coordinatorDone' = TRUE
    /\ lastOp' = [op |-> "coordinator", key |-> "", result |-> "done"]
    /\ UNCHANGED <<notLifecycle, pc, mainPc, scanLoopDone, aggregator, verifier, locking>>

\* scanLoop: case <-fs.ctx.Done()
ScanLoopReturn ==
    /\ StopCalled("scanner")
    /\ ~scanLoopDone
    /\ scanLoopDone' = TRUE
    /\ lastOp' = [op |-> "scanLoop", key |-> "", result |-> "done"]
    /\ UNCHANGED <<notLifecycle, pc, mainPc, coordinatorDone, aggregator, verifier, locking>>

\* The range loop ending as soon as the channel is closed.
RangeEndsOnClose(q, closed) == closed

\* for job := range wpm.jobQueue ends: the channel is closed and empty
RangeEnds(q, closed) == closed /\ q = <<>>

\* worker: the range loop ends and the goroutine returns (wg.Done)
WorkerExit(w) ==
    /\ pc[w] = "idle"
    /\ RangeEnds(jobQueue, QueueClosed)
    /\ pc' = [pc EXCEPT ![w] = "stopped"]
    /\ lastOp' = [op |-> "worker", key |-> "", result |-> "stopped"]
    /\ UNCHANGED <<notLifecycle, lifecycle, aggregator, verifier, locking>>

\* ------------------------------------------- StatsTracker, called directly
\* The methods of the StatsTracker called by concurrent goroutines. A method
\* that writes several fields holds the write lock from its first write to its
\* last; the other goroutines can only run a method when the lock lets them.
notAggregator == <<now, srcData, srcSha, verified, dlq, files, jobQueue, pc, wjob,
                   csvRows, arrivals, ioFails, gaveUp, recorded, lifecycle,
                   verifier, locking>>

\* RLock succeeding whoever holds the mutex.
CanRLockAlways(m) == TRUE

\* s.mutex.RLock() / s.mutex.Lock() can be taken: no writer holds the mutex
CanRLock(m) == m = "unlocked"
CanLock(m) == m = "unlocked"

\* IncrementSuccess: Lock, successCount++ ...
BeginIncrementSuccess ==
    /\ CanLock(statsMutex)
    /\ stats.successCount + stats.failureCount < MaxCount
    /\ statsMutex' = "IncrementSuccess"
    /\ stats' = [stats EXCEPT !.successCount = @ + 1]
    /\ lastOp' = [op |-> "IncrementSuccess", key |-> "", result |-> "locked"]
    /\ UNCHANGED <<notAggregator, snapshot, resetSeen>>

\* ... totalProcessed++, Unlock
EndIncrementSuccess ==
    /\ statsMutex = "IncrementSuccess"
    /\ statsMutex' = "unlocked"
    /\ stats' = [stats EXCEPT !.totalProcessed = @ + 1]
    /\ lastOp' = [op |-> "IncrementSuccess", key |-> "", result |-> "done"]
    /\ UNCHANGED <<notAggregator, snapshot, resetSeen>>

\* IncrementFailure: Lock, failureCount++ ...
BeginIncrementFailure ==
    /\ CanLock(statsMutex)
    /\ stats.successCount + stats.failureCount < MaxCount
    /\ statsMutex' = "IncrementFailure"
    /\ stats' = [stats EXCEPT !.failureCount = @ + 1]
    /\ lastOp' = [op |-> "IncrementFailure", key |-> "", result |-> "locked"]
    /\ UNCHANGED <<notAggregator, snapshot, resetSeen>>

\* ... totalProcessed++, Unlock
EndIncrementFailure ==
    /\ statsMutex = "IncrementFailure"
    /\ statsMutex' = "unlocked"
    /\ stats' = [stats EXCEPT !.totalProcessed = @ + 1]
    /\ lastOp' = [op |-> "IncrementFailure", key |-> "", result |-> "done"]
    /\ UNCHANGED <<notAggregator, snapshot, resetSeen>>

\* SetPendingCount(count): a single write under the lock
CallSetPendingCount(count) ==
    /\ CanLock(statsMutex)
    /\ stats' = SetPendingCount(stats, count)
    /\ lastOp' = [op |-> "SetPendingCount", key |-> "", result |-> "done"]
    /\ UNCHANGED <<notAggregator, statsMutex, snapshot, resetSeen>>

\* GetStatistics: the copy taken under the read lock
CallGetStatistics ==
    /\ CanRLock(statsMutex)
    /\ snapshot' = GetStatistics(stats)
    /\ resetSeen' = FALSE
    /\ lastOp' = [op |-> "GetStatistics", key |-> "", result |-> "done"]
    /\ UNCHANGED <<notAggregator, stats, statsMutex>>

\* Reset: Lock, totalProcessed = 0 ...
BeginReset ==
    /\ CanLock(statsMutex)
    /\ statsMutex' = "Reset"
    /\ stats' = [stats EXCEPT !.totalProcessed = 0]
    /\ resetSeen' = TRUE
    /\ lastOp' = [op |-> "Reset", key |-> "", result |-> "locked"]
    /\ UNCHANGED <<notAggregator, snapshot>>

\* ... successCount = 0, failureCount = 0, pendingCount = 0, Unlock
EndReset ==
    /\ statsMutex = "Reset"
    /\ statsMutex' = "unlocked"
    /\ stats' = [stats EXCEPT !.successCount = 0, !.failureCount = 0,
                              !.pendingCount = 0]
    /\ lastOp' = [op |-> "Reset", key |-> "", result |-> "done"]
    /\ UNCHANGED <<notAggregator, snapshot, resetSeen>>

StatsNext ==
    \/ BeginIncrementSuccess
    \/ EndIncrementSuccess
    \/ BeginIncrementFailure
    \/ EndIncrementFailure
    \/ \E count \in 0..Cardinality(Keys) : CallSetPendingCount(count)
    \/ CallGetStatistics
    \/ BeginReset
    \/ EndReset

StatsSpec == Init /\ [][StatsNext]_vars

\* ------------------------------------------- FileTracker, called directly
\* The exported methods of the FileTracker, called in any order by any caller.
notTracker == <<srcData, srcSha, verified, dlq, jobQueue, pc, wjob, stats,
                csvRows, arrivals, ioFails, gaveUp>>

CallAddOrUpdateDataFile(k) ==
    /\ files' = AddOrUpdateDataFile(files, k, FileSize, now)
    /\ recorded' = [recorded EXCEPT ![k].data = TRUE]
    /\ lastOp' = [op |-> "AddOrUpdateDataFile", key |-> k, result |-> ""]
    /\ UNCHANGED <<now, notTracker, lifecycle, aggregator, verifier, locking>>

CallAddOrUpdateSHA256File(k) ==
    /\ files' = AddOrUpdateSHA256File(files, Sha256Name(k), now)
    /\ recorded' = [recorded EXCEPT ![k].sha = TRUE]
    /\ lastOp' = [op |-> "AddOrUpdateSHA256File", key |-> k, result |-> ""]
    /\ UNCHANGED <<now, notTracker, lifecycle, aggregator, verifier, locking>>

CallMarkBothFilesPresent(k) ==
    /\ files' = MarkBothFilesPresent(files, k)
    /\ lastOp' = [op |-> "MarkBothFilesPresent", key |-> k, result |-> ""]
    /\ UNCHANGED <<now, recorded, notTracker, lifecycle, aggregator, verifier, locking>>

CallRemove(k) ==
    /\ files' = Remove(files, k)
    /\ recorded' = [recorded EXCEPT ![k] = NoneRecorded]
    /\ lastOp' = [op |-> "Remove", key |-> k,
                  result |-> IF k \in DOMAIN files THEN "deleted" ELSE "absent"]
    /\ UNCHANGED <<now, notTracker, lifecycle, aggregator, verifier, locking>>

\* The read-only methods: they take the read lock and copy pairs out.
CallGetExpiredFiles ==
    /\ lastOp' = [op |-> "GetExpiredFiles", key |-> "",
                  result |-> IF GetExpiredFiles(files, now) = {} THEN "none" ELSE "some"]
    /\ UNCHANGED <<now, files, recorded, notTracker, lifecycle, aggregator, verifier, locking>>

CallGetReadyForVerification ==
    /\ lastOp' = [op |-> "GetReadyForVerification", key |-> "",
                  result |-> IF GetReadyForVerification(files) = {} THEN "none" ELSE "some"]
    /\ UNCHANGED <<now, files, recorded, notTracker, lifecycle, aggregator, verifier, locking>>

TrackerNext ==
    \/ Advance
    \/ \E k \in Keys : CallAddOrUpdateDataFile(k)
    \/ \E k \in Keys : CallAddOrUpdateSHA256File(k)
    \/ \E k \in Keys : CallMarkBothFilesPresent(k)
    \/ \E k \in Keys : CallRemove(k)
    \/ CallGetExpiredFiles
    \/ CallGetReadyForVerification

TrackerSpec == Init /\ [][TrackerNext]_vars

\* The program from start to exit: Next, and the shutdown main runs on a signal.
ShutdownNext ==
    \/ Next
    \/ ShutdownSignal
    \/ MainStop
    \/ CoordinatorReturn
    \/ ScanLoopReturn
    \/ \E w \in Workers : WorkerExit(w)

\* Every goroutine that can take a step is scheduled; the signal may never come.
ShutdownFairness ==
    /\ WF_vars(MainStop)
    /\ WF_vars(CoordinatorReturn)
    /\ WF_vars(ScanLoopReturn)
    /\ \A w \in Workers : WF_vars(WorkerExit(w))

ShutdownSpec == Init /\ [][ShutdownNext]_vars /\ Fairness /\ ShutdownFairness

\* ---------------------------------------------- file operations, called directly
\* MoveToVerified and MoveToDLQ called in one process on whatever the producer
\* has put in the source folder.
notFolders == <<now, files, jobQueue, pc, wjob, stats, csvRows, arrivals, gaveUp,
                recorded, lifecycle, aggregator, verifier, locking>>

\* The producer puts a data file and its checksum file in the source folder.
ProducerPuts(k) ==
    /\ srcData' = srcData \cup {k}
    /\ srcSha' = [srcSha EXCEPT ![k] = "match"]
    /\ lastOp' = [op |-> "put", key |-> k, result |-> ""]
    /\ UNCHANGED <<notFolders, verified, dlq, ioFails>>

\* The I/O faults a move can meet: none; one that leaves nothing behind (Rename,
\* Open or Create fails); one that leaves a copy at the destination (Rename
\* fails and Copy, Sync, Stat, Chmod or the Remove of the source fails).
Faults == {"none", "clean", "copy"}

\* moveFile: os.Rename, else copyFile and os.Remove of the source. "moved": the
\* file is at the destination and gone from the source; "failed": an error and
\* nothing at the destination; "copyLeft": an error with the source in place
\* and a (possibly partial) copy at the destination.
moveFile(sourcePath, fault) ==
    IF ~FileExists(sourcePath) THEN "failed"
    ELSE IF fault = "none" THEN "moved"
    ELSE IF fault = "clean" THEN "failed"
    ELSE "copyLeft"

\* MoveToDLQ going on to the checksum file after the data file's move failed.
MoveToDLQResultContinues(dataOutcome, shaOutcome) ==
    [data |-> dataOutcome, sha |-> shaOutcome,
     err |-> dataOutcome # "moved" \/ shaOutcome # "moved"]

\* MoveToDLQ: the data file's move, return on its error; then the checksum
\* file's move, return on its error; nothing is undone. sha = "skipped" when
\* the second moveFile is not reached.
MoveToDLQResult(dataOutcome, shaOutcome) ==
    IF dataOutcome # "moved"
    THEN [data |-> dataOutcome, sha |-> "skipped", err |-> TRUE]
    ELSE [data |-> dataOutcome, sha |-> shaOutcome, err |-> shaOutcome # "moved"]

CallMoveToVerified(k) ==
    \E fault \in Faults :
        LET outcome == moveFile(DataPath(k), fault) IN
        /\ CanFail(DataPath(k), fault # "none", 0)
        /\ ioFails' = ioFails + (IF fault # "none" THEN 1 ELSE 0)
        /\ srcData' = IF outcome = "moved" THEN srcData \ {k} ELSE srcData
        /\ verified' = IF outcome # "failed" THEN verified \cup {VerifiedDest(k)}
                       ELSE verified
        /\ lastOp' = [op |-> "MoveToVerified", key |-> k,
                      result |-> IF outcome = "moved" THEN "moved" ELSE "error"]
        /\ UNCHANGED <<notFolders, srcSha, dlq>>

CallMoveToDLQ(k) ==
    \E dataFault, shaFault \in Faults :
        LET used == IF dataFault # "none" THEN 1 ELSE 0
            r    == MoveToDLQResult(moveFile(DataPath(k), dataFault),
                                    moveFile(Sha256Path(k), shaFault))
        IN
        /\ CanFail(DataPath(k), dataFault # "none", 0)
        /\ CanFail(Sha256Path(k), shaFault # "none", used)
        /\ moveFile(DataPath(k), dataFault) # "moved" => shaFault = "none"
        /\ ioFails' = ioFails + used + (IF shaFault # "none" THEN 1 ELSE 0)
        /\ srcData' = IF r.data = "moved" THEN srcData \ {k} ELSE srcData
        /\ srcSha' = IF r.sha = "moved" THEN [srcSha EXCEPT ![k] = "none"] ELSE srcSha
        /\ dlq' = dlq \cup (IF r.data \in {"moved", "copyLeft"}
                            THEN {DlqDest(k, FALSE)} ELSE {})
                      \cup (IF r.sha \in {"moved", "copyLeft"}
                            THEN {DlqDest(k, TRUE)} ELSE {})
        /\ lastOp' = [op |-> "MoveToDLQ", key |-> k,
                      result |-> IF r.err THEN "error" ELSE "moved"]
        /\ UNCHANGED <<notFolders, verified>>

MoverNext ==
    \/ \E k \in Keys : ProducerPuts(k)
    \/ \E k \in Keys : CallMoveToVerified(k)
    \/ \E k \in Keys : CallMoveToDLQ(k)

MoverSpec == Init /\ [][MoverNext]_vars

\* ------------------------------------------------- one pass, in any order
\* The files os.ReadDir lists: a data file or a ".sha256" file of a key.
DirEntries ==
    {[name |-> k, sha |-> FALSE] : k \in srcData}
        \cup {[name |-> k, sha |-> TRUE] : k \in {x \in Keys : srcSha[x] # "none"}}

\* The loop of scan over the entries in the order given.
RECURSIVE ScanInOrder(_, _, _)
ScanInOrder(f, order, t) ==
    IF order = <<>> THEN f
    ELSE LET e == Head(order) IN
         ScanInOrder(IF e.sha THEN ScanSha256Entry(f, e.name, t)
                              ELSE ScanDataEntry(f, e.name, t),
                     Tail(order), t)

\* FileScanner.scan over a directory listing in an arbitrary order, on a
\* registry that earlier calls have left in any state.
ScanPass ==
    \E order \in Orders(DirEntries) :
        /\ ~scanLoopDone
        /\ files' = ScanInOrder(files, order, now)
        /\ recorded' = [k \in Keys |->
                          [data    |-> recorded[k].data \/ k \in srcData,
                           sha     |-> recorded[k].sha \/ srcSha[k] # "none",
                           counted |-> recorded[k].counted]]
        /\ lastOp' = [op |-> "scanPass",
                      key |-> IF order = <<>> THEN "" ELSE Head(order).name,
                      result |-> IF order = <<>> THEN "empty"
                                 ELSE IF Head(order).sha THEN "shaFirst"
                                 ELSE "dataFirst"]
        /\ UNCHANGED <<now, notTracker, lifecycle, aggregator, verifier, locking>>

ScanNext ==
    \/ Advance
    \/ \E k \in Produced : DataFileArrives(k)
    \/ \E k \in Produced, c \in {"match", "mismatch"} : Sha256FileArrives(k, c)
    \/ \E k \in Keys : CallAddOrUpdateDataFile(k)
    \/ \E k \in Keys : CallAddOrUpdateSHA256File(k)
    \/ \E k \in Keys : CallMarkBothFilesPresent(k)
    \/ \E k \in Keys : CallRemove(k)
    \/ ScanPass

ScanSpec == Init /\ [][ScanNext]_vars

\* ----------------------------------------------------------------- dispatch
\* The coordinator's tick over the registries the scanner's sightings produce,
\* with workers taking jobs off the queue.
DispatchNext ==
    \/ Advance
    \/ \E k \in Keys : CallAddOrUpdateDataFile(k)
    \/ \E k \in Keys : CallAddOrUpdateSHA256File(k)
    \/ CoordinatorTick
    \/ \E w \in Workers : WorkerStart(w)

DispatchSpec == Init /\ [][DispatchNext]_vars

\* ------------------------------------------------------------------ verifier
\* Strings are sequences of one-character strings; a digest is a sequence of
\* nibbles (0..15).

notVerifier == <<now, srcData, srcSha, verified, dlq, files, jobQueue, pc, wjob, stats,
                 csvRows, arrivals, ioFails, gaveUp, lastOp, recorded, lifecycle,
                 aggregator, locking>>

WhiteSpace == {" ", "\n", "\t"}
HexChars == <<"0", "1", "2", "3", "4", "5", "6", "7", "8", "9", "a", "b", "c", "d", "e", "f">>
UpperHexChars == <<"0", "1", "2", "3", "4", "5", "6", "7", "8", "9", "A", "B", "C", "D", "E", "F">>
UpperCase == <<"A", "B", "C", "D", "E", "F", "G">>
LowerCase == <<"a", "b", "c", "d", "e", "f", "g">>

ToLowerIdentity(s) == s

ToLower(s) ==
    [i \in DOMAIN s |->
        IF \E n \in DOMAIN UpperCase : UpperCase[n] = s[i]
        THEN LowerCase[CHOOSE n \in DOMAIN UpperCase : UpperCase[n] = s[i]]
        ELSE s[i]]

RECURSIVE TrimLeft(_)
TrimLeft(s) ==
    IF s # <<>> /\ Head(s) \in WhiteSpace THEN TrimLeft(Tail(s)) ELSE s

RECURSIVE TrimRight(_)
TrimRight(s) ==
    IF s # <<>> /\ s[Len(s)] \in WhiteSpace THEN TrimRight(SubSeq(s, 1, Len(s) - 1)) ELSE s

TrimSpace(s) == TrimRight(TrimLeft(s))

\* The longest prefix of s without white space.
RECURSIVE Word(_)
Word(s) ==
    IF s = <<>> \/ Head(s) \in WhiteSpace THEN <<>> ELSE <<Head(s)>> \o Word(Tail(s))

RECURSIVE Fields(_)
Fields(s) ==
    LET t == TrimLeft(s)
    IN  IF t = <<>> THEN <<>>
        ELSE <<Word(t)>> \o Fields(SubSeq(t, Len(Word(t)) + 1, Len(t)))

\* hex.DecodeString succeeds: an even number of hex digits of either case.
DecodeStringOk(s) ==
    /\ Len(s) % 2 = 0
    /\ \A i \in DOMAIN s :
        \E n \in DOMAIN HexChars : s[i] = HexChars[n] \/ s[i] = UpperHexChars[n]

EncodeToString(sum) == [i \in DOMAIN sum |-> HexChars[sum[i] + 1]]

ReadSHA256File(file) ==
    IF ~file.readable THEN [hash |-> <<>>, err |-> "failed to read SHA256 file"]
    ELSE LET content == TrimSpace(file.content)
             parts == Fields(content)
             hash == ToLower(parts[1])
         IN  IF content = <<>> THEN [hash |-> <<>>, err |-> "SHA256 file is empty"]
             ELSE IF Len(parts) = 0
                  THEN [hash |-> <<>>, err |-> "SHA256 file has invalid format"]
             ELSE IF Len(hash) # HashLen
                  THEN [hash |-> <<>>, err |-> "invalid SHA256 hash length"]
             ELSE IF ~DecodeStringOk(hash)
                  THEN [hash |-> <<>>, err |-> "invalid SHA256 hash format"]
             ELSE [hash |-> hash, err |-> ""]

ComputeFileSHA256(file) ==
    IF ~file.readable THEN [hash |-> <<>>, err |-> "failed to open file"]
    ELSE [hash |-> EncodeToString(file.sum), err |-> ""]

\* VerifyFile on the contents of the two files: computed, expected, err.
VerifyFileResult(dataFile, sha256File) ==
    LET expectedHash == ReadSHA256File(sha256File)
        computedHash == ComputeFileSHA256(dataFile)
    IN  IF expectedHash.err # ""
        THEN [computed |-> <<>>, expected |-> <<>>, err |-> "failed to read expected hash"]
        ELSE IF computedHash.err # ""
        THEN [computed |-> <<>>, expected |-> expectedHash.hash,
              err |-> "failed to compute hash"]
        ELSE IF ToLower(computedHash.hash) # ToLower(expectedHash.hash)
        THEN [computed |-> computedHash.hash, expected |-> expectedHash.hash,
              err |-> "hash mismatch"]
        ELSE [computed |-> computedHash.hash, expected |-> expectedHash.hash, err |-> ""]

VerifyFileMatch(dataFile, sha256File) == VerifyFileResult(dataFile, sha256File).err = ""

\* The files the calls are checked on.
Rep(c, n) == [i \in 1..n |-> c]
Pads == UNION {[1..n -> {" ", "\n"}] : n \in 0..MaxPad}
Tokens ==
    {Rep(c, n) : c \in {"a", "A", "0", "g"},
                 n \in (HashLen - MaxLenDelta)..(HashLen + MaxLenDelta)}
    \cup {<<>>, <<"A">> \o Rep("a", HashLen - 1), Rep("a", HashLen - 1) \o <<"g">>}
Leads == {<<>>, <<"x", " ">>}
Trails == {<<>>, <<"\n">>, <<" ", " ", "a", ".", "b", "i", "n", "\n">>}
Sha256Contents ==
    {lead \o pad \o tok \o trail :
        lead \in Leads, pad \in Pads, tok \in Tokens, trail \in Trails}
Sums == {Rep(10, HashLen), Rep(0, HashLen)}

\* Somebody writes the two files VerifyFile is then called on.
PlaceFiles ==
    /\ ~vf.placed
    /\ \E content \in Sha256Contents, sum \in Sums, shaReadable, dataReadable \in BOOLEAN :
        /\ vf' = [NoVerifyCall EXCEPT
                    !.placed = TRUE,
                    !.sha256File = [readable |-> shaReadable, content |-> content],
                    !.dataFile = [readable |-> dataReadable, sum |-> sum]]
    /\ UNCHANGED notVerifier

CallVerifyFile ==
    /\ vf.placed
    /\ ~vf.called
    /\ LET r == VerifyFileResult(vf.dataFile, vf.sha256File)
       IN  vf' = [vf EXCEPT !.called = TRUE, !.computed = r.computed,
                            !.expected = r.expected, !.err = r.err]
    /\ UNCHANGED notVerifier

VerifyNext == PlaceFiles \/ CallVerifyFile

VerifySpec == Init /\ [][VerifyNext]_vars

\* ------------------------------------------------------------------ locking
\* The FileTracker's and the StatsTracker's methods step by step: a method
\* takes its mutex, looks the key up, writes field by field, and releases the
\* mutex when it returns (the deferred Unlock).  The scanner records sightings,
\* the coordinator reads the ready pairs and each worker runs processJob, its
\* file operations succeeding or failing either way, all for the files the
\* producer writes and in any interleaving.

notLocking == <<now, srcData, srcSha, verified, dlq, jobQueue, wjob, csvRows, arrivals,
                ioFails, gaveUp, lastOp, recorded, lifecycle, aggregator, verifier>>

Clients == {"scanner", "coordinator"}
WorkerOf(g) == CHOOSE w \in Workers : ToString(w) = g

WriteMethods ==
    {"AddOrUpdateDataFile", "AddOrUpdateSHA256File", "MarkBothFilesPresent", "Remove"}
ScanMethods == WriteMethods \ {"Remove"}
ReadMethods == {"GetReadyForVerification"}
StatsMethods == {"IncrementSuccess", "IncrementFailure"}
LockedMethods == WriteMethods \cup ReadMethods \cup StatsMethods
IoOps == {"FileExists", "VerifyFile", "MoveToVerified", "DeleteFile", "MoveToDLQ",
          "LogVerification"}

\* The mutex a method takes, and how: ft.mutex.Lock, ft.mutex.RLock, s.mutex.Lock.
LockOf(method) ==
    IF method \in WriteMethods THEN "ft.mutex.Lock"
    ELSE IF method \in ReadMethods THEN "ft.mutex.RLock"
    ELSE "s.mutex.Lock"

\* A mutex that never makes a caller wait.
MutexFreeAlways(h, lock) == TRUE

\* The mutex can be taken: a write lock needs no holder at all, a read lock no
\* writer.
MutexFree(h, lock) ==
    CASE lock = "ft.mutex.Lock" ->
            \A g \in DOMAIN h : h[g] \cap {"ft.mutex.Lock", "ft.mutex.RLock"} = {}
      [] lock = "ft.mutex.RLock" -> \A g \in DOMAIN h : "ft.mutex.Lock" \notin h[g]
      [] lock = "s.mutex.Lock" -> \A g \in DOMAIN h : "s.mutex.Lock" \notin h[g]

\* A method returning without its deferred Unlock.
UnlockForgotten(mine, lock) == mine

\* defer mutex.Unlock() / RUnlock()
Unlock(mine, lock) == mine \ {lock}

\* The number of writes (for a read method: reads) a method makes under its lock.
NumWrites(c) ==
    CASE c.method = "AddOrUpdateDataFile" -> IF c.existed THEN 2 ELSE 1
      [] c.method = "AddOrUpdateSHA256File" -> IF c.existed THEN 3 ELSE 1
      [] c.method = "MarkBothFilesPresent" -> IF c.existed THEN 1 ELSE 0
      [] OTHER -> 1

\* ft.files[k] = &FilePair{...}
Store(f, k, pair) == [x \in DOMAIN f \cup {k} |-> IF x = k THEN pair ELSE f[x]]

\* The registry after the write number c.step of call c.  The update branches
\* write through the pointer the lookup returned: once the pair has left the
\* map, the write no longer shows in the registry.
WriteStep(f, c, t) ==
    LET k == c.key IN
    CASE c.method = "AddOrUpdateDataFile" /\ ~c.existed ->
            Store(f, k, AddOrUpdateDataFile(<<>>, k, FileSize, t)[k])
      [] c.method = "AddOrUpdateSHA256File" /\ ~c.existed ->
            Store(f, k, AddOrUpdateSHA256File(<<>>, Sha256Name(k), t)[k])
      [] c.method = "Remove" -> Remove(f, k)
      [] OTHER ->
            IF k \notin DOMAIN f THEN f
            ELSE CASE c.method = "AddOrUpdateDataFile" /\ c.step = 1 ->
                        [f EXCEPT ![k].DataFilePath = DataPath(k)]
                   [] c.method = "AddOrUpdateDataFile" /\ c.step = 2 ->
                        [f EXCEPT ![k].DataSize = FileSize]
                   [] c.method = "AddOrUpdateSHA256File" /\ c.step = 1 ->
                        [f EXCEPT ![k].SHA256File = Sha256Name(k)]
                   [] c.method = "AddOrUpdateSHA256File" /\ c.step = 2 ->
                        [f EXCEPT ![k].SHA256Path = Sha256Path(k)]
                   [] c.method = "AddOrUpdateSHA256File" /\ c.step = 3 ->
                        [f EXCEPT ![k].HasBothFiles = TRUE]
                   [] c.method = "MarkBothFilesPresent" ->
                        [f EXCEPT ![k].HasBothFiles = TRUE]

\* The registry after the whole of call c, run on its own.
RunAlone(f, c, t) ==
    CASE c.method = "AddOrUpdateDataFile" -> AddOrUpdateDataFile(f, c.key, FileSize, t)
      [] c.method = "AddOrUpdateSHA256File" -> AddOrUpdateSHA256File(f, Sha256Name(c.key), t)
      [] c.method = "MarkBothFilesPresent" -> MarkBothFilesPresent(f, c.key)
      [] c.method = "Remove" -> Remove(f, c.key)
      [] OTHER -> f

\* The copies GetReadyForVerification appends to its result.
ReadyCopies(f) == {f[k] : k \in GetReadyForVerification(f)}

NewCall(method, k) == [method |-> method, key |-> k, step |-> 0, existed |-> FALSE]

\* What a worker does when the method or file operation c has returned, in
\* processJob ("verify"), handleSuccess ("success") or handleFailure ("failure").
AfterReturn(phase, c, ok) ==
    CASE c.method = "FileExists" ->
            [pc |-> phase,
             call |-> NewCall(IF ok THEN "VerifyFile" ELSE "Remove", c.key)]
      [] c.method = "VerifyFile" ->
            [pc |-> IF ok THEN "success" ELSE "failure",
             call |-> NewCall(IF ok THEN "MoveToVerified" ELSE "time.Now", c.key)]
      [] c.method = "time.Now" ->
            IF ok THEN [pc |-> phase, call |-> NewCall("MoveToDLQ", c.key)]
            ELSE [pc |-> "idle", call |-> NoCall]
      [] c.method = "MoveToVerified" ->
            [pc |-> phase,
             call |-> NewCall(IF ok THEN "DeleteFile" ELSE "IncrementFailure", c.key)]
      [] c.method \in {"DeleteFile", "MoveToDLQ"} ->
            [pc |-> phase, call |-> NewCall("Remove", c.key)]
      [] c.method = "Remove" ->
            IF phase = "verify" THEN [pc |-> "idle", call |-> NoCall]
            ELSE [pc |-> phase,
                  call |-> NewCall(IF phase = "success" THEN "IncrementSuccess"
                                   ELSE "IncrementFailure", c.key)]
      [] c.method = "IncrementSuccess" ->
            [pc |-> phase, call |-> NewCall("LogVerification", c.key)]
      [] OTHER -> [pc |-> "idle", call |-> NoCall]

\* The scanner or the coordinator calls a method of the registry.
ClientCalls(g, method, k) ==
    /\ call[g] = NoCall
    /\ call' = [call EXCEPT ![g] = NewCall(method, k)]
    /\ UNCHANGED <<files, seqFiles, held, readResult, pc, stats, notLocking>>

\* worker: a job for key k arrives on the channel; processJob starts with the
\* existence check.
WorkerReceives(w, k) ==
    /\ pc[w] = "idle"
    /\ stats.totalProcessed < MaxCount
    /\ pc' = [pc EXCEPT ![w] = "verify"]
    /\ call' = [call EXCEPT ![ToString(w)] = NewCall("FileExists", k)]
    /\ UNCHANGED <<files, seqFiles, held, readResult, stats, notLocking>>

\* A file operation (or the deadline test) of a worker finishes, well or badly.
WorkerIo(w) ==
    LET g == ToString(w) IN
    /\ call[g].method \in IoOps \cup {"time.Now"}
    /\ \E ok \in BOOLEAN :
        LET n == AfterReturn(pc[w], call[g], ok) IN
        /\ pc' = [pc EXCEPT ![w] = n.pc]
        /\ call' = [call EXCEPT ![g] = n.call]
        /\ UNCHANGED <<files, seqFiles, held, readResult, stats, notLocking>>

\* mutex.Lock() / RLock() returns, and the method looks its key up.
MethodLocks(g) ==
    LET c == call[g] IN
    /\ c.method \in LockedMethods
    /\ c.step = 0
    /\ MutexFree(held, LockOf(c.method))
    /\ held' = [held EXCEPT ![g] = @ \cup {LockOf(c.method)}]
    /\ call' = [call EXCEPT ![g].step = 1, ![g].existed = c.key \in DOMAIN files]
    /\ seqFiles' = RunAlone(seqFiles, c, now)
    /\ UNCHANGED <<files, readResult, pc, stats, notLocking>>

\* The method makes its next write (a read method: builds its result).
MethodWrites(g) ==
    LET c == call[g] IN
    /\ c.method \in LockedMethods
    /\ c.step \in 1..NumWrites(c)
    /\ call' = [call EXCEPT ![g].step = c.step + 1]
    /\ files' = IF c.method \in WriteMethods THEN WriteStep(files, c, now) ELSE files
    /\ readResult' = IF c.method \in ReadMethods THEN ReadyCopies(files) ELSE readResult
    /\ stats' = IF c.method = "IncrementSuccess" THEN IncrementSuccess(stats)
                ELSE IF c.method = "IncrementFailure" THEN IncrementFailure(stats)
                ELSE stats
    /\ UNCHANGED <<seqFiles, held, pc, notLocking>>

\* The method returns: the deferred Unlock runs and the caller goes on.
MethodReturns(g) ==
    LET c == call[g] IN
    /\ c.method \in LockedMethods
    /\ c.step = NumWrites(c) + 1
    /\ held' = [held EXCEPT ![g] = Unlock(@, LockOf(c.method))]
    /\ IF g \in Clients
       THEN /\ call' = [call EXCEPT ![g] = NoCall]
            /\ pc' = pc
       ELSE LET n == AfterReturn(pc[WorkerOf(g)], c, TRUE) IN
            /\ call' = [call EXCEPT ![g] = n.call]
            /\ pc' = [pc EXCEPT ![WorkerOf(g)] = n.pc]
    /\ UNCHANGED <<files, seqFiles, readResult, stats, notLocking>>

LockNext ==
    \/ \E method \in ScanMethods, k \in Produced : ClientCalls("scanner", method, k)
    \/ ClientCalls("coordinator", "GetReadyForVerification", "")
    \/ \E w \in Workers, k \in Produced : WorkerReceives(w, k)
    \/ \E w \in Workers : WorkerIo(w)
    \/ \E g \in Goroutines : MethodLocks(g)
    \/ \E g \in Goroutines : MethodWrites(g)
    \/ \E g \in Goroutines : MethodReturns(g)

LockSpec == Init /\ [][LockNext]_vars

\* ------------------------------------------------------------------ claims
JobKey(job) == job.FilePair.DataFile

\* The workers that hold a job for key k.
Holding(k) == {w \in Workers : pc[w] # "idle" /\ JobKey(wjob[w]) = k}

\* The jobs for key k that are queued or held by a worker.
InFlight(k) ==
    Cardinality({i \in DOMAIN jobQueue : JobKey(jobQueue[i]) = k})
        + Cardinality(Holding(k))

\* Worker w finishes handleFailure / handleSuccess in this step.
FailureStep(w) == pc[w] = "failure" /\ pc'[w] = "idle"
SuccessStep(w) == pc[w] = "success" /\ pc'[w] = "idle"

\* C1: at most one verification job per pair key is queued or being processed
\* at any time.
C1_AtMostOneInFlight == \A k \in Keys : InFlight(k) <= 1

\* C2: a pair of which only the data file was ever sighted is removed from the
\* registry once retryTimeout has elapsed since its first sighting (unless its
\* checksum file is sighted after all).
DataOnlyExpired(k) ==
    /\ k \in DOMAIN files
    /\ files[k].SHA256Path = EmptyPath
    /\ now - files[k].FirstSeen >= RetryTimeout

C2_DataOnlyPairReaped ==
    \A k \in Keys :
        DataOnlyExpired(k) ~> (k \notin DOMAIN files \/ files[k].SHA256Path # EmptyPath)

\* C3: once a worker has given up on a failing pair past its deadline, the
\* pair is terminal: unless the producer drops a new file under that name, the
\* key is not tracked again and no job for it is verified again.
C3_GivenUpIsTerminal ==
    \A k \in gaveUp :
        /\ k \notin DOMAIN files
        /\ ~(lastOp.op = "verify" /\ lastOp.key = k)

\* C4: a failed job handled at now >= retryDeadline (the boundary included)
\* has both files routed to the DLQ folder, the pair removed from the registry
\* and the failure counter incremented by exactly one.
C4_FailurePastDeadlineDeadLetters ==
    [][\A w \in Workers :
          (FailureStep(w) /\ now >= wjob[w].RetryDeadline) =>
              LET k == JobKey(wjob[w]) IN
              /\ k \notin srcData' /\ srcSha'[k] = "none"
              /\ \E d, s \in dlq' : d.name = k /\ ~d.sha /\ s.name = k /\ s.sha
              /\ k \notin DOMAIN files'
              /\ stats'.failureCount = stats.failureCount + 1]_vars

\* C5: a failed job handled before its retry deadline changes nothing: the
\* registry (so a ready pair stays ready), the source, verified and DLQ
\* folders, the counters and the CSV rows are as before.
C5_FailureBeforeDeadlineNoAction ==
    [][\A w \in Workers :
          (FailureStep(w) /\ now < wjob[w].RetryDeadline) =>
              /\ files' = files
              /\ GetReadyForVerification(files') = GetReadyForVerification(files)
              /\ UNCHANGED <<srcData, srcSha, verified, dlq, csvRows>>
              /\ stats'.totalProcessed = stats.totalProcessed
              /\ stats'.successCount = stats.successCount
              /\ stats'.failureCount = stats.failureCount]_vars

\* A worker has just left a failed, still ready pair alone for a retry.
C5_Witness ==
    /\ lastOp.op = "handleFailure" /\ lastOp.result = "retry"
    /\ lastOp.key \in GetReadyForVerification(files)
    /\ now < files[lastOp.key].FirstSeen + RetryTimeout

DataMoved(k) == k \in srcData /\ k \notin srcData'

C7_DeleteFailureKeepsSuccess ==
    [][\A w \in Workers :
          LET k == JobKey(wjob[w]) IN
          (SuccessStep(w) /\ DataMoved(k) /\ (srcSha[k] = "none" \/ srcSha'[k] # "none")) =>
              /\ VerifiedDest(k) \in verified'
              /\ verified \subseteq verified'
              /\ k \notin DOMAIN files'
              /\ stats'.successCount = stats.successCount + 1
              /\ stats'.failureCount = stats.failureCount]_vars

\* The checksum file survived a successful job.
C7_Witness ==
    /\ lastOp.op = "handleSuccess" /\ lastOp.result = "movedDeleteFailed"
    /\ srcSha[lastOp.key] # "none"
    /\ [name |-> lastOp.key, uniq |-> FALSE] \in verified
    /\ lastOp.key \notin DOMAIN files
    /\ stats.successCount = 1 /\ stats.failureCount = 0

\* A worker receives the job at the head of the queue in this step.
StartStep == jobQueue # <<>> /\ jobQueue' = Tail(jobQueue)

\* C8: a job whose data file or checksum file is gone when the worker starts
\* it is dropped: the pair is removed from the registry, no verification is
\* run, no file moves and no counter changes.
C8_StaleJobDropped ==
    [][(StartStep /\ LET k == JobKey(Head(jobQueue))
                     IN k \notin srcData \/ srcSha[k] = "none") =>
          /\ files' = Remove(files, JobKey(Head(jobQueue)))
          /\ pc' = pc
          /\ UNCHANGED <<srcData, srcSha, verified, dlq, csvRows>>
          /\ stats'.totalProcessed = stats.totalProcessed
          /\ stats'.successCount = stats.successCount
          /\ stats'.failureCount = stats.failureCount]_vars

\* A stale job has just been dropped.
C8_Witness ==
    /\ lastOp.op = "processJob" /\ lastOp.result = "stale"
    /\ lastOp.key \notin DOMAIN files
    /\ lastOp.key \notin srcData \/ srcSha[lastOp.key] = "none"

Min(a, b) == IF a < b THEN a ELSE b

\* C9: submit never blocks and never overfills: over a dispatch tick the
\* queue keeps its contents and grows only by jobs of ready pairs, up to Q;
\* a job is refused exactly when the queue holds Q jobs, and a refused job is
\* kept nowhere; the registry and the workers are untouched.
C9_SubmitNeverBlocks ==
    [][(lastOp'.op = "tick") =>
          LET ready == GetReadyForVerification(files) IN
          /\ Len(jobQueue') = Min(QueueSize, Len(jobQueue) + Cardinality(ready))
          /\ SubSeq(jobQueue', 1, Len(jobQueue)) = jobQueue
          /\ \A i \in (Len(jobQueue) + 1)..Len(jobQueue') :
                \E k \in ready : jobQueue'[i] = NewJob(files[k])
          /\ Len(jobQueue) = QueueSize => jobQueue' = jobQueue
          /\ (lastOp'.result = "rejected")
                <=> (Len(jobQueue) + Cardinality(ready) > QueueSize)
          /\ UNCHANGED <<files, pc, wjob>>]_vars

\* A tick has just had a job refused by a full queue.
C9_Witness ==
    /\ lastOp.op = "tick" /\ lastOp.result = "rejected"
    /\ Len(jobQueue) = QueueSize
    /\ GetReadyForVerification(files) # {}

\* A worker removes key k in this step on a terminal outcome: a stale job, a
\* verified and moved data file, or a failure past the deadline.
TerminalRemove(k) ==
    \/ /\ StartStep
       /\ JobKey(Head(jobQueue)) = k
       /\ k \notin srcData \/ srcSha[k] = "none"
    \/ \E w \in Workers :
          /\ JobKey(wjob[w]) = k
          /\ \/ SuccessStep(w) /\ DataMoved(k)
             \/ FailureStep(w) /\ now > wjob[w].RetryDeadline

\* C10: a key enters the registry when the scanner sights one of its files,
\* stays through every upsert, read and tick, and leaves only by a worker's
\* terminal Remove.
C10_KeyLifetime ==
    [][\A k \in Keys :
          /\ (k \in DOMAIN files /\ k \notin DOMAIN files') => TerminalRemove(k)
          /\ (k \notin DOMAIN files /\ k \in DOMAIN files') =>
                (lastOp'.op = "scan" /\ (k \in srcData \/ srcSha[k] # "none"))]_vars

\* A key that a tick saw tracked has just been removed by a worker.
C10_Witness ==
    /\ lastOp.result \in {"stale", "moved", "movedDeleteFailed", "dlq", "dlqMoveFailed"}
    /\ lastOp.key \notin DOMAIN files
    /\ stats.pendingCount > 0

\* A worker invokes fileTracker.Remove(k) in this step.
RemoveInvoked(k) ==
    /\ lastOp'.key = k
    /\ lastOp'.result \in {"stale", "moved", "movedDeleteFailed", "dlq", "dlqMoveFailed"}

\* C11: Remove(key) is invoked at most once for a tracked pair: every Remove
\* a worker invokes finds the key still tracked, a Remove of a key that was
\* already removed is never observed.
C11_RemovedOnce ==
    [][\A k \in Keys : RemoveInvoked(k) => k \in DOMAIN files]_vars

\* C12: a pair is never in the result of GetReadyForVerification before both
\* its data file and its checksum file have been recorded, whatever sequence of
\* AddOrUpdateDataFile, AddOrUpdateSHA256File, MarkBothFilesPresent and Remove
\* calls was made.
C12_ReadyOnlyWhenBothRecorded ==
    \A k \in GetReadyForVerification(files) : recorded[k].data /\ recorded[k].sha

\* The checksum file was recorded a second time with no data file: the flag
\* is set, and the pair is not ready.
C12_Witness ==
    /\ lastOp.op = "AddOrUpdateSHA256File"
    /\ lastOp.key \in DOMAIN files
    /\ files[lastOp.key].HasBothFiles
    /\ recorded[lastOp.key].sha /\ ~recorded[lastOp.key].data
    /\ lastOp.key \notin GetReadyForVerification(files)

\* C13: as soon as both halves of a key have been recorded, in either order,
\* the pair is both-present and is returned by GetReadyForVerification until
\* it is removed.
C13_BothRecordedIsReady ==
    \A k \in Keys :
        (recorded[k].data /\ recorded[k].sha) =>
            /\ k \in DOMAIN files
            /\ files[k].HasBothFiles
            /\ k \in GetReadyForVerification(files)

\* C14: AddOrUpdateDataFile and AddOrUpdateSHA256File are idempotent: the
\* second of two calls in a row with identical arguments leaves every field of
\* every pair as the first call left it.
C14_RecordIdempotent ==
    [][(/\ lastOp'.op \in {"AddOrUpdateDataFile", "AddOrUpdateSHA256File"}
        /\ lastOp' = lastOp) => files' = files]_vars

\* C15: every tracked pair whose HasBothFiles flag is set has a non-empty data
\* path and a non-empty checksum path.
C15_BothPresentHasPaths ==
    \A k \in DOMAIN files :
        files[k].HasBothFiles =>
            files[k].DataFilePath # EmptyPath /\ files[k].SHA256Path # EmptyPath

\* C16: GetExpiredFiles returns exactly the tracked pairs first seen at least
\* retryTimeout ago, whether data-only, checksum-only or both-present, and
\* leaves the registry as it was.
C16_ExpiredExact ==
    [][lastOp'.op = "GetExpiredFiles" =>
          /\ files' = files
          /\ \A k \in Keys :
                k \in GetExpiredFiles(files, now)
                    <=> (k \in DOMAIN files /\ files[k].FirstSeen + RetryTimeout <= now)
          /\ (lastOp'.result = "some")
                <=> (\E k \in DOMAIN files : files[k].FirstSeen + RetryTimeout <= now)]_vars

\* GetExpiredFiles has just returned a half pair that is exactly retryTimeout
\* old, and not the younger pair tracked beside it.
C16_Witness ==
    /\ lastOp.op = "GetExpiredFiles" /\ lastOp.result = "some"
    /\ \E k \in GetExpiredFiles(files, now) :
          /\ ~files[k].HasBothFiles
          /\ now - files[k].FirstSeen = RetryTimeout
    /\ \E k \in DOMAIN files : k \notin GetExpiredFiles(files, now)

AllWorkersStopped == \A w \in Workers : pc[w] = "stopped"

\* C17: Stop closes the queue and drains it: after the close a queued job
\* leaves the queue only by a worker receiving it, a worker that holds a job
\* runs it through its handler, a worker returns only when idle with the
\* closed queue empty, Stop returns only when all workers have returned, and
\* they all eventually do, leaving the queue empty.
C17_StopDrains ==
    /\ [][QueueClosed =>
             \/ jobQueue' = jobQueue
             \/ /\ jobQueue # <<>> /\ jobQueue' = Tail(jobQueue)
                /\ \E w \in Workers :
                      /\ pc[w] = "idle"
                      /\ \/ pc'[w] = "verify" /\ wjob'[w] = Head(jobQueue)
                         \/ pc'[w] = "idle" /\ lastOp'.result = "stale"]_vars
    /\ [][\A w \in Workers :
             /\ pc[w] = "verify" => pc'[w] \in {"verify", "success", "failure"}
             /\ pc[w] \in {"success", "failure"} => pc'[w] \in {pc[w], "idle"}
             /\ (pc[w] # "stopped" /\ pc'[w] = "stopped") =>
                    (pc[w] = "idle" /\ jobQueue = <<>> /\ QueueClosed)]_vars
    /\ [](StopReturned("workerPool") => (AllWorkersStopped /\ jobQueue = <<>>))
    /\ (QueueClosed ~> (AllWorkersStopped /\ jobQueue = <<>>))

\* After the close a worker has just received a job that was queued before it.
C17_Witness ==
    /\ QueueClosed
    /\ lastOp.op = "processJob" /\ lastOp.result = "started"
    /\ \E w \in Workers : pc[w] = "verify" /\ JobKey(wjob[w]) = lastOp.key

\* C18 as stated: the scanner is stopped first, then the coordinator is
\* cancelled and awaited, then the queue is closed and the workers awaited,
\* then the logger is closed.
C18_ScannerStoppedFirst ==
    /\ StopCalled("coordinator") => scanLoopDone
    /\ StopCalled("workerPool") => coordinatorDone
    /\ StopCalled("csvLogger") => AllWorkersStopped

\* C18 (amended): the coordinator is cancelled and awaited first, then the
\* scanner is stopped, then the queue is closed and the workers awaited, then
\* the logger is closed.
C18_ShutdownOrder ==
    /\ StopCalled("scanner") => coordinatorDone
    /\ scanLoopDone => coordinatorDone
    /\ StopCalled("workerPool") => scanLoopDone
    /\ (\E w \in Workers : pc[w] = "stopped") => scanLoopDone
    /\ StopCalled("csvLogger") => AllWorkersStopped

\* main has returned after a run that verified a pair: everything is stopped.
C18_Witness ==
    /\ StopReturned("csvLogger")
    /\ coordinatorDone /\ scanLoopDone /\ AllWorkersStopped
    /\ stats.successCount = 1

\* C19: every snapshot is consistent: whatever updates are in progress when
\* GetStatistics is called, the Statistics it returns has
\* TotalProcessed = SuccessCount + FailureCount.
C19_SnapshotConsistent ==
    snapshot.TotalProcessed = snapshot.SuccessCount + snapshot.FailureCount

\* An update holds the lock half applied, and the snapshot taken before it
\* (after earlier updates) is consistent.
C19_Witness ==
    /\ statsMutex = "IncrementSuccess"
    /\ stats.totalProcessed # stats.successCount + stats.failureCount
    /\ snapshot.TotalProcessed > 0
    /\ snapshot.TotalProcessed = snapshot.SuccessCount + snapshot.FailureCount

\* The counters of the snapshot this step takes are not below those of the
\* snapshot before it.
SnapshotGrows ==
    /\ snapshot'.TotalProcessed >= snapshot.TotalProcessed
    /\ snapshot'.SuccessCount >= snapshot.SuccessCount
    /\ snapshot'.FailureCount >= snapshot.FailureCount

\* C20 as stated: across any sequence of operations on the statistics tracker,
\* none of processed, success and failure decreases between two successive
\* snapshots.
C20_CountersNeverDecrease ==
    [][lastOp'.op = "GetStatistics" => SnapshotGrows]_vars

\* C20 (amended): none of processed, success and failure decreases between two
\* successive snapshots unless Reset was called between them.
C20_CountersMonotoneUnlessReset ==
    [][(lastOp'.op = "GetStatistics" /\ ~resetSeen) => SnapshotGrows]_vars

\* A snapshot taken after successes, failures and a lowered pending gauge,
\* with no Reset since the snapshot before it.
C20_Witness ==
    /\ lastOp.op = "GetStatistics"
    /\ ~resetSeen
    /\ snapshot.SuccessCount >= 1 /\ snapshot.FailureCount >= 1
    /\ snapshot.TotalProcessed = MaxCount
    /\ snapshot.PendingCount = 0

\* The checksum file of key k leaves the source folder in this step.
Sha256Moved(k) == srcSha[k] # "none" /\ srcSha'[k] = "none"

\* C21: a move never overwrites: whenever MoveToVerified or MoveToDLQ moves a
\* file, the name it writes in the destination folder was not present there
\* before the move.
C21_MoveNeverOverwrites ==
    [][\A k \in Keys :
          /\ (lastOp'.op = "MoveToVerified" /\ lastOp'.key = k /\ DataMoved(k))
                => VerifiedDest(k) \notin verified
          /\ (lastOp'.op = "MoveToDLQ" /\ lastOp'.key = k /\ DataMoved(k))
                => DlqDest(k, FALSE) \notin dlq
          /\ (lastOp'.op = "MoveToDLQ" /\ lastOp'.key = k /\ Sha256Moved(k))
                => DlqDest(k, TRUE) \notin dlq]_vars

\* The white-space-delimited tokens of s that start at its first character
\* that is not white space (none when s is empty or all white space).
FirstTokens(s) ==
    UNION {{SubSeq(s, i, j) : j \in {m \in i..Len(s) :
                                        /\ \A n \in i..m : s[n] \notin WhiteSpace
                                        /\ (m = Len(s) \/ s[m + 1] \in WhiteSpace)}} :
           i \in {m \in 1..Len(s) : /\ s[m] \notin WhiteSpace
                                    /\ \A n \in 1..(m - 1) : s[n] \in WhiteSpace}}

\* tok spells the digest sum in hex, in either case.
SpellsSum(tok, sum) ==
    /\ Len(tok) = Len(sum)
    /\ \A i \in DOMAIN tok :
        tok[i] = HexChars[sum[i] + 1] \/ tok[i] = UpperHexChars[sum[i] + 1]

IsHexToken(tok) ==
    /\ Len(tok) = HashLen
    /\ \A i \in DOMAIN tok : \E n \in 1..16 : tok[i] = HexChars[n] \/ tok[i] = UpperHexChars[n]

\* C22: VerifyFile succeeds if and only if both files are readable and the
\* first white-space-delimited token of the checksum file spells the data
\* file's digest in hex, whatever the case; an unreadable checksum file, an
\* empty one, or a first token that is not exactly 64 hex characters gives an
\* error result.
C22_VerifyIffDigestsEqual ==
    vf.called =>
        /\ (vf.err = "") <=>
              /\ vf.sha256File.readable
              /\ vf.dataFile.readable
              /\ \E tok \in FirstTokens(vf.sha256File.content) : SpellsSum(tok, vf.dataFile.sum)
        /\ (\/ ~vf.sha256File.readable
            \/ ~vf.dataFile.readable
            \/ \A tok \in FirstTokens(vf.sha256File.content) : ~IsHexToken(tok))
           => vf.err \in {"failed to read expected hash", "failed to compute hash"}

\* VerifyFile accepted an upper-case checksum followed by a file name, after
\* leading white space.
C22_Witness ==
    /\ vf.called
    /\ vf.err = ""
    /\ vf.sha256File.content =
          <<" ">> \o Rep("A", HashLen) \o <<" ", " ", "a", ".", "b", "i", "n", "\n">>

\* C23 (scenario A): once a data file and a matching checksum file are both
\* in the source, then, unless the checksum file is replaced by one that does
\* not match, the system eventually reaches a state where the data file is in
\* the verified folder, the checksum file is gone from the source and the key
\* is absent from the registry.
C23_MatchingPairVerified ==
    \A k \in Keys :
        (k \in srcData /\ srcSha[k] = "match")
            ~> \/ /\ \E v \in verified : v.name = k
                  /\ srcSha[k] = "none"
                  /\ k \notin DOMAIN files
               \/ srcSha[k] = "mismatch"

\* Both files of pair k are in the source, the checksum does not match, and
\* the pair is registered as both-present.
MismatchingPair(k) ==
    /\ k \in srcData
    /\ srcSha[k] = "mismatch"
    /\ k \in DOMAIN files
    /\ files[k].HasBothFiles

BothInDLQ(k) == \E d, s \in dlq : d.name = k /\ ~d.sha /\ s.name = k /\ s.sha

\* C24 (scenario B): a pair whose checksum does not match stays in the registry
\* with both files in the source while less than retryTimeout has elapsed since
\* its first sighting; once retryTimeout has elapsed, then, unless a matching
\* checksum is written after all, eventually both files are in the dead-letter
\* folder and the key is absent from the registry.  (A pair that is pending
\* with a deadline the bounded clock cannot pass is left out.)
C24_MismatchDeadLettered ==
    /\ [][\A k \in Keys :
            (MismatchingPair(k) /\ now' < files[k].FirstSeen + RetryTimeout
                /\ srcSha'[k] = srcSha[k])
            => (k \in DOMAIN files' /\ k \in srcData' /\ srcSha'[k] = "mismatch")]_vars
    /\ \A k \in Keys :
        (MismatchingPair(k) /\ now >= files[k].FirstSeen + RetryTimeout)
            ~> \/ BothInDLQ(k) /\ k \notin DOMAIN files
               \/ srcSha[k] = "match"
               \/ MismatchingPair(k) /\ files[k].FirstSeen + RetryTimeout >= MaxTime

\* The workers that are processing a job.
Busy == {w \in Workers : pc[w] # "idle"}

\* C25: the job queue holds at most QueueSize jobs, at most NumWorkers jobs are
\* being processed at once, and so at most QueueSize + NumWorkers accepted jobs
\* are outstanding.
C25_BoundedPool ==
    /\ Len(jobQueue) <= QueueSize
    /\ Cardinality(Busy) <= NumWorkers
    /\ \A w \in Busy : wjob[w] # NoJob
    /\ Len(jobQueue) + Cardinality({w \in Workers : wjob[w] # NoJob}) <= QueueSize + NumWorkers

\* The queue is full, every worker is processing a job, and the coordinator
\* has just had a job rejected.
C25_Witness ==
    /\ Len(jobQueue) = QueueSize
    /\ Cardinality(Busy) = NumWorkers
    /\ lastOp.op = "tick" /\ lastOp.result = "rejected"

\* The positions of the jobs this step appends to the queue.
Appended == (Len(jobQueue) + 1)..Len(jobQueue')

\* C26: a coordinator tick appends to the queue one job per pair that
\* GetReadyForVerification returns (as many as the queue has room for, each a
\* copy of the registry's pair with RetryDeadline = FirstSeen + RetryTimeout),
\* no job for a pair of which a file is missing, leaves the registry alone and
\* then sets the pending gauge to the number of pairs in the registry.
C26_TickDispatchesReadyPairs ==
    [][lastOp'.op = "tick" =>
          /\ files' = files
          /\ Len(jobQueue') >= Len(jobQueue)
          /\ SubSeq(jobQueue', 1, Len(jobQueue)) = jobQueue
          /\ \A i \in Appended :
                LET job == jobQueue'[i]
                    k == job.FilePair.DataFile
                IN  /\ k \in DOMAIN files
                    /\ job.FilePair = files[k]
                    /\ files[k].HasBothFiles
                    /\ files[k].DataFilePath # EmptyPath
                    /\ files[k].SHA256Path # EmptyPath
                    /\ job.RetryDeadline = files[k].FirstSeen + RetryTimeout
          /\ \A i, j \in Appended :
                i # j => jobQueue'[i].FilePair.DataFile # jobQueue'[j].FilePair.DataFile
          /\ Cardinality(Appended) =
                Min(Cardinality(GetReadyForVerification(files)), QueueSize - Len(jobQueue))
          /\ stats' = [stats EXCEPT !.pendingCount = Cardinality(DOMAIN files)]]_vars

\* A tick has just queued a job for the one ready pair of a registry of two
\* pairs, and published two as the pending count.
C26_Witness ==
    /\ lastOp.op = "tick" /\ lastOp.result = "accepted"
    /\ Cardinality(DOMAIN files) = 2
    /\ Cardinality(GetReadyForVerification(files)) = 1
    /\ Len(jobQueue) = 1
    /\ jobQueue[1].RetryDeadline = jobQueue[1].FilePair.FirstSeen + RetryTimeout
    /\ stats.pendingCount = 2

\* The last tick had a job rejected while pair k was ready.
RejectedWhileReady(k) ==
    /\ lastOp.op = "tick" /\ lastOp.result = "rejected"
    /\ k \in GetReadyForVerification(files)

\* The last tick had every job accepted, one for pair k among them.
AcceptedFor(k) ==
    /\ lastOp.op = "tick" /\ lastOp.result = "accepted"
    /\ k \in GetReadyForVerification(files)
    /\ \E i \in DOMAIN jobQueue : jobQueue[i].FilePair.DataFile = k

\* C27: a tick in which SubmitJob returns false leaves the registry as it is,
\* so the ready pair stays both-present, and a job for that pair is accepted
\* on a later tick, unless the pair has left the registry by then.
C27_BackpressureLosesNoWork ==
    /\ [][(lastOp'.op = "tick" /\ lastOp'.result = "rejected") =>
            /\ files' = files
            /\ GetReadyForVerification(files') # {}]_vars
    /\ \A k \in Keys :
        RejectedWhileReady(k) ~> (AcceptedFor(k) \/ k \notin GetReadyForVerification(files))

\* The queue is full and the tick has just had the job for the ready pair
\* a.bin rejected; the pair is in the registry, both-present.
C27_Witness ==
    /\ RejectedWhileReady("a.bin")
    /\ Len(jobQueue) = QueueSize
    /\ files["a.bin"].HasBothFiles

\* C28: once cancelled the coordinator returns and closes done, once; from then
\* on no job is added to the queue and the pending gauge is not set again; and
\* the step that closes done changes nothing else: the scanner's loop, the
\* workers, the queue and main's position are as before, so workers go on
\* taking the queued jobs.
C28_CoordinatorCompletesOnce ==
    /\ [][coordinatorDone =>
            /\ coordinatorDone'
            /\ lastOp'.op # "tick"
            /\ Len(jobQueue') <= Len(jobQueue)
            /\ stats'.pendingCount = stats.pendingCount]_vars
    /\ [][(~coordinatorDone /\ coordinatorDone') =>
            /\ StopCalled("coordinator")
            /\ UNCHANGED <<scanLoopDone, pc, wjob, jobQueue, mainPc, files, stats>>]_vars
    /\ StopCalled("coordinator") ~> coordinatorDone

\* The coordinator has completed, the worker pool has not been stopped, and a
\* worker has just taken a queued job with another still in the queue.
C28_Witness ==
    /\ coordinatorDone
    /\ ~StopCalled("workerPool")
    /\ lastOp.op = "processJob" /\ lastOp.result = "started"
    /\ jobQueue # <<>>

\* C29: a worker that is checking file existence, hashing, moving or deleting a
\* file (or writing the log row) holds no lock, and a goroutine holds a lock
\* only inside the one registry or counter method that took it.
C29_NoLockAcrossIO ==
    \A g \in Goroutines :
        /\ call[g].method \in IoOps => held[g] = {}
        /\ held[g] # {} =>
              /\ call[g].method \in LockedMethods
              /\ call[g].step >= 1
              /\ held[g] = {LockOf(call[g].method)}

\* A worker is moving a verified file, after its earlier job ended with a
\* Remove, while another goroutine is inside a registry method, holding the
\* lock.
C29_Witness ==
    \E w \in Workers, g \in Goroutines :
        /\ call[ToString(w)].method = "MoveToVerified"
        /\ held[ToString(w)] = {}
        /\ stats.totalProcessed > 0
        /\ "ft.mutex.Lock" \in held[g]

\* A registry method that writes is between its Lock and its return.
Writing == \E g \in Goroutines : call[g].method \in WriteMethods /\ call[g].step >= 1

\* C30: whenever no writing method is in progress the registry is what the
\* calls made so far give when run one after the other, in the order they took
\* the lock; and what GetReadyForVerification returns is the set of ready
\* pairs of such a registry, never a pair with an update half applied.
C30_RegistryLinearizable ==
    /\ ~Writing => files = seqFiles
    /\ \A g \in Goroutines :
          (call[g].method \in ReadMethods /\ call[g].step = 2) =>
              readResult = ReadyCopies(seqFiles)

\* GetReadyForVerification has just returned a ready pair while a Remove and an
\* AddOrUpdateSHA256File from other goroutines wait for the lock.
C30_Witness ==
    /\ call["coordinator"].method = "GetReadyForVerification"
    /\ call["coordinator"].step = 2
    /\ readResult # {}
    /\ \E g1, g2 \in Goroutines :
          /\ call[g1].method = "Remove" /\ call[g1].step = 0
          /\ call[g2].method = "AddOrUpdateSHA256File" /\ call[g2].step = 0

\* C31: a job is what was captured at dispatch until a worker is done with it.
\* Jobs in the queue change only by a tick appending behind them and by a
\* worker taking the oldest one; the job a worker holds does not change while
\* it processes it; in particular no step that changes the registry changes a
\* queued or held job.  A job taken off the queue is gone from it and is given
\* to the one worker that took it, so it is processed once.
C31_JobImmutableProcessedOnce ==
    [][/\ \A w \in Workers :
            (pc[w] # "idle" /\ pc'[w] # "idle") => wjob'[w] = wjob[w]
       /\ \A w \in Workers :
            (pc[w] = "idle" /\ pc'[w] \notin {"idle", "stopped"}) =>
                /\ jobQueue # <<>>
                /\ wjob'[w] = Head(jobQueue)
                /\ jobQueue' = Tail(jobQueue)
                /\ \A o \in Workers \ {w} : pc'[o] = pc[o] /\ wjob'[o] = wjob[o]
       /\ \/ jobQueue' = jobQueue
          \/ /\ lastOp'.op = "tick"
             /\ Len(jobQueue') > Len(jobQueue)
             /\ SubSeq(jobQueue', 1, Len(jobQueue)) = jobQueue
          \/ /\ lastOp'.op = "processJob"
             /\ jobQueue # <<>>
             /\ jobQueue' = Tail(jobQueue)
       /\ lastOp'.op = "processJob" => (jobQueue # <<>> /\ jobQueue' = Tail(jobQueue))
       /\ (files' # files /\ lastOp'.op # "processJob") =>
            (jobQueue' = jobQueue /\ \A w \in Workers : pc'[w] # "idle" => wjob'[w] = wjob[w])
      ]_vars

\* A worker is processing a job whose pair snapshot is no longer what the
\* registry holds for that key: the entry was removed and created again.
C31_Witness ==
    \E w \in Workers :
        /\ pc[w] \in {"verify", "success", "failure"}
        /\ JobKey(wjob[w]) \in DOMAIN files
        /\ files[JobKey(wjob[w])] # wjob[w].FilePair
        /\ wjob[w].RetryDeadline = wjob[w].FilePair.FirstSeen + RetryTimeout

\* C32: the job queue is closed only after the coordinator has completed, and
\* no tick (the only caller of SubmitJob) runs on a closed queue.
C32_NoSubmitAfterClose ==
    /\ QueueClosed => coordinatorDone
    /\ ~(QueueClosed /\ lastOp.op = "tick")

\* The queue has been closed with jobs the coordinator submitted still in it.
C32_Witness ==
    /\ QueueClosed
    /\ coordinatorDone
    /\ jobQueue # <<>>

\* C33: a job's outcome is added to the processed counter only if no outcome
\* has been counted for its key since the key was last created in the registry.
C33_PairCountedOnce ==
    [][\A w \in Workers :
          ((SuccessStep(w) \/ FailureStep(w))
              /\ stats'.totalProcessed = stats.totalProcessed + 1)
          => ~recorded[JobKey(wjob[w])].counted]_vars

\* C34: when verification matched and MoveToVerified fails (nothing arrives in
\* the verified folder), the failure and processed counters grow by one, the
\* success counter, the checksum file, the data file and the CSV rows are as
\* before, and the registry is unchanged, so a ready pair stays ready.
C34_MoveFailureCountsAndKeeps ==
    [][\A w \in Workers :
          (SuccessStep(w) /\ verified' = verified) =>
              /\ stats'.failureCount = stats.failureCount + 1
              /\ stats'.totalProcessed = stats.totalProcessed + 1
              /\ stats'.successCount = stats.successCount
              /\ srcSha' = srcSha
              /\ srcData' = srcData
              /\ csvRows' = csvRows
              /\ files' = files
              /\ GetReadyForVerification(files') = GetReadyForVerification(files)]_vars

\* The move of a matched data file has just failed: one failure counted, both
\* files in the source, the pair ready.
C34_Witness ==
    /\ lastOp.op = "handleSuccess" /\ lastOp.result = "moveFailed"
    /\ lastOp.key \in GetReadyForVerification(files)
    /\ lastOp.key \in srcData /\ srcSha[lastOp.key] = "match"
    /\ stats.failureCount = 1 /\ stats.successCount = 0 /\ csvRows = 0

\* A file of key k (the checksum file if isSha) arrives in the DLQ folder in
\* this step.
ArrivesInDLQ(k, isSha) == \E d \in dlq' \ dlq : d.name = k /\ d.sha = isSha

\* C35: when a worker gives up on a failed job past its deadline and MoveToDLQ
\* fails, the pair is removed from the registry all the same, the failure and
\* processed counters grow by one, and each file that was not moved to the DLQ
\* folder is in the source as before.
C35_DlqMoveFailureStillTerminal ==
    [][\A w \in Workers :
          (FailureStep(w) /\ now > wjob[w].RetryDeadline
              /\ ~(ArrivesInDLQ(JobKey(wjob[w]), FALSE) /\ ArrivesInDLQ(JobKey(wjob[w]), TRUE)))
          => LET k == JobKey(wjob[w]) IN
             /\ k \notin DOMAIN files'
             /\ stats'.failureCount = stats.failureCount + 1
             /\ stats'.totalProcessed = stats.totalProcessed + 1
             /\ stats'.successCount = stats.successCount
             /\ ~ArrivesInDLQ(k, FALSE) => ((k \in srcData') <=> (k \in srcData))
             /\ ~ArrivesInDLQ(k, TRUE) => srcSha'[k] = srcSha[k]
             /\ verified' = verified]_vars

\* A worker has just given up on a pair whose data file could not be moved:
\* both files are still in the source, the pair is gone from the registry and
\* one failure is counted.
C35_Witness ==
    /\ lastOp.op = "handleFailure" /\ lastOp.result = "dlqMoveFailed"
    /\ lastOp.key \notin DOMAIN files
    /\ lastOp.key \in srcData /\ srcSha[lastOp.key] = "mismatch"
    /\ dlq = {}
    /\ stats.failureCount = 1

\* The step is a direct call of MoveToDLQ for key k.
MoveToDLQStep(k) == lastOp'.op = "MoveToDLQ" /\ lastOp'.key = k

C37_FirstSeenFixedForLifetime ==
    [][\A k \in Keys :
          /\ (k \notin DOMAIN files /\ k \in DOMAIN files')
                => files'[k].FirstSeen = now
          /\ (k \in DOMAIN files /\ k \in DOMAIN files')
                => /\ files'[k].FirstSeen = files[k].FirstSeen
                   /\ NewJob(files'[k]).RetryDeadline = NewJob(files[k]).RetryDeadline]_vars

\* A checksum file has just been recorded for a key created at an earlier
\* time: the pair is complete and FirstSeen is still the earlier time.
C37_Witness ==
    /\ lastOp.op = "AddOrUpdateSHA256File"
    /\ lastOp.key \in DOMAIN files
    /\ files[lastOp.key].HasBothFiles
    /\ files[lastOp.key].DataFilePath # EmptyPath
    /\ files[lastOp.key].FirstSeen < now

C39_RemoveDeletesOnlyItsKey ==
    [][\A k \in Keys :
          (lastOp'.op = "Remove" /\ lastOp'.key = k) =>
             /\ k \notin DOMAIN files =>
                   /\ files' = files
                   /\ GetPendingCount(files') = GetPendingCount(files)
             /\ k \in DOMAIN files =>
                   /\ DOMAIN files' = DOMAIN files \ {k}
                   /\ \A x \in DOMAIN files' : files'[x] = files[x]
                   /\ GetPendingCount(files') = GetPendingCount(files) - 1]_vars

\* Remove has just been called on a key that is not tracked while another key
\* is: the other entry is still there.
C39_Witness ==
    /\ lastOp.op = "Remove" /\ lastOp.result = "absent"
    /\ lastOp.key \notin DOMAIN files
    /\ GetPendingCount(files) = 1

====
